---- MODULE Spec2Model ----
(***************************************************************************)
(* Model of the CodeBot agent: run_agent (the task orchestrator) and       *)
(* execute_step (the per-step executor) of app/agent.py, with the tools of *)
(* app/tools.py and the gateway of app/llm.py as their environment.        *)
(*                                                                         *)
(* Texts the language model sends are TLA+ strings; json_loads gives, for  *)
(* each of them, the value Python's json.loads gives.  Texts whose         *)
(* characters matter (shell commands for the substring denylists, process  *)
(* output and file content for strip()) are sequences of characters.       *)
(***************************************************************************)
EXTENDS Integers, Sequences, FiniteSets, TLC

\* ------------------------------------------------------------------------
\* Bounds
\* ------------------------------------------------------------------------

\* longest plan the planner returns
MaxPlanLen == 2

\* ------------------------------------------------------------------------
\* Characters, substring test, strip
\* ------------------------------------------------------------------------

Whitespace == {" ", "\n", "\t"}

\* Python `word in text` on strings: word occurs as a contiguous substring
Contains(text, word) ==
    \E i \in 0..(Len(text) - Len(word)) :
        \A j \in 1..Len(word) : text[i + j] = word[j]

RECURSIVE LStrip(_)
LStrip(s) ==
    IF s # <<>> /\ Head(s) \in Whitespace THEN LStrip(Tail(s)) ELSE s

RECURSIVE RStrip(_)
RStrip(s) ==
    IF s # <<>> /\ s[Len(s)] \in Whitespace
    THEN RStrip(SubSeq(s, 1, Len(s) - 1))
    ELSE s

\* str.strip()
Strip(s) == RStrip(LStrip(s))

\* the characters of the shell inputs the modelled replies carry
Chars(s) ==
    CASE s = "ls" -> <<"l", "s">>
      [] s = "rm -rf /tmp/x" ->
            <<"r", "m", " ", "-", "r", "f", " ", "/", "t", "m", "p", "/", "x">>
      [] s = "pip list" -> <<"p", "i", "p", " ", "l", "i", "s", "t">>
      [] s = "apt update" ->
            <<"a", "p", "t", " ", "u", "p", "d", "a", "t", "e">>
      [] s = "rm pip" -> <<"r", "m", " ", "p", "i", "p">>
      [] OTHER -> <<>>

\* ------------------------------------------------------------------------
\* JSON values
\* ------------------------------------------------------------------------

KeyNames == {"final", "action", "input", "note", "path", "content"}

\* a value held under a key of an object
JStr(text) == [type |-> "str", s |-> text]
JInt(text) == [type |-> "int", s |-> text]
JList(text) == [type |-> "list", s |-> text]
Absent == [type |-> "absent", s |-> ""]

\* a decoded document: an object with its keys, or a scalar / an array
Obj(fields) ==
    [type |-> "dict", s |-> "", keys |-> DOMAIN fields,
     get |-> [k \in KeyNames |-> IF k \in DOMAIN fields THEN fields[k] ELSE Absent]]
Scalar(t, text) ==
    [type |-> t, s |-> text, keys |-> {}, get |-> [k \in KeyNames |-> Absent]]
JSONDecodeError == Scalar("JSONDecodeError", "")
None == Scalar("NoneType", "")

\* json.loads on the texts of the model: replies of the language model and
\* write_file inputs
json_loads(text) ==
    CASE text = "{\"final\":\"done\"}" -> Obj([final |-> JStr("done")])
      [] text = "{\"final\":\"\"}" -> Obj([final |-> JStr("")])
      [] text = "{\"final\":5}" -> Obj([final |-> JInt("5")])
      [] text = "{\"final\":\"done\",\"action\":\"shell\"}" ->
            Obj([final |-> JStr("done"), action |-> JStr("shell")])
      [] text = "{\"action\":\"shell\"}" -> Obj([action |-> JStr("shell")])
      [] text = "{\"action\":\"shell\",\"input\":5}" ->
            Obj([action |-> JStr("shell"), input |-> JInt("5")])
      [] text = "{\"action\":5,\"input\":\"ls\"}" ->
            Obj([action |-> JInt("5"), input |-> JStr("ls")])
      [] text = "{\"action\":\"shell\",\"input\":\"ls\",\"note\":\"x\"}" ->
            Obj([action |-> JStr("shell"), input |-> JStr("ls"), note |-> JStr("x")])
      [] text = "{}" -> Obj(<<>>)
      [] text = "[1]" -> Scalar("list", "[1]")
      [] text = "null" -> None
      [] text = "{\"action\":\"shell\",\"input\":\"ls\"}" ->
            Obj([action |-> JStr("shell"), input |-> JStr("ls")])
      [] text = "{\"action\":\"shell\",\"input\":\"rm -rf /tmp/x\"}" ->
            Obj([action |-> JStr("shell"), input |-> JStr("rm -rf /tmp/x")])
      [] text = "{\"action\":\"shell\",\"input\":\"pip list\"}" ->
            Obj([action |-> JStr("shell"), input |-> JStr("pip list")])
      [] text = "{\"action\":\"shell\",\"input\":\"apt update\"}" ->
            Obj([action |-> JStr("shell"), input |-> JStr("apt update")])
      [] text = "{\"action\":\"shell\",\"input\":\"rm pip\"}" ->
            Obj([action |-> JStr("shell"), input |-> JStr("rm pip")])
      [] text = "{\"action\":\"read_file\",\"input\":\"a.txt\"}" ->
            Obj([action |-> JStr("read_file"), input |-> JStr("a.txt")])
      [] text = "{\"action\":\"list_dir\",\"input\":\".\"}" ->
            Obj([action |-> JStr("list_dir"), input |-> JStr(".")])
      [] text = "{\"action\":\"delete_file\",\"input\":\"a.txt\"}" ->
            Obj([action |-> JStr("delete_file"), input |-> JStr("a.txt")])
      [] text = "{\"action\":\"write_file\",\"input\":\"{\\\"path\\\":\\\"a.txt\\\",\\\"content\\\":\\\"x\\\"}\"}" ->
            Obj([action |-> JStr("write_file"),
                 input |-> JStr("{\"path\":\"a.txt\",\"content\":\"x\"}")])
      [] text = "{\"action\":\"write_file\",\"input\":\"{\\\"path\\\":\\\"b.txt\\\",\\\"content\\\":\\\"x\\\"}\"}" ->
            Obj([action |-> JStr("write_file"),
                 input |-> JStr("{\"path\":\"b.txt\",\"content\":\"x\"}")])
      [] text = "{\"action\":\"write_file\",\"input\":\"{\\\"path\\\":\\\"a.txt\\\"}\"}" ->
            Obj([action |-> JStr("write_file"), input |-> JStr("{\"path\":\"a.txt\"}")])
      [] text = "{\"action\":\"write_file\",\"input\":\"{\\\"path\\\":\\\"a.txt\\\",\\\"content\\\":5}\"}" ->
            Obj([action |-> JStr("write_file"),
                 input |-> JStr("{\"path\":\"a.txt\",\"content\":5}")])
      [] text = "{\"action\":\"write_file\",\"input\":\"{\\\"content\\\":\\\"x\\\"}\"}" ->
            Obj([action |-> JStr("write_file"), input |-> JStr("{\"content\":\"x\"}")])
      [] text = "{\"action\":\"write_file\",\"input\":\"{\\\"path\\\":[\\\"b.txt\\\"],\\\"content\\\":\\\"x\\\"}\"}" ->
            Obj([action |-> JStr("write_file"),
                 input |-> JStr("{\"path\":[\"b.txt\"],\"content\":\"x\"}")])
      [] text = "{\"action\":\"write_file\",\"input\":\"{\\\"path\\\":5,\\\"content\\\":\\\"x\\\"}\"}" ->
            Obj([action |-> JStr("write_file"),
                 input |-> JStr("{\"path\":5,\"content\":\"x\"}")])
      [] text = "{\"action\":\"write_file\",\"input\":\"a.txt\"}" ->
            Obj([action |-> JStr("write_file"), input |-> JStr("a.txt")])
      [] text = "{\"path\":\"a.txt\",\"content\":\"x\"}" ->
            Obj([path |-> JStr("a.txt"), content |-> JStr("x")])
      [] text = "{\"path\":\"b.txt\",\"content\":\"x\"}" ->
            Obj([path |-> JStr("b.txt"), content |-> JStr("x")])
      [] text = "{\"path\":\"a.txt\"}" -> Obj([path |-> JStr("a.txt")])
      [] text = "{\"path\":\"a.txt\",\"content\":5}" ->
            Obj([path |-> JStr("a.txt"), content |-> JInt("5")])
      [] text = "{\"content\":\"x\"}" -> Obj([content |-> JStr("x")])
      [] text = "{\"path\":[\"b.txt\"],\"content\":\"x\"}" ->
            Obj([path |-> JList("[\"b.txt\"]"), content |-> JStr("x")])
      [] text = "{\"path\":5,\"content\":\"x\"}" ->
            Obj([path |-> JInt("5"), content |-> JStr("x")])
      [] OTHER -> JSONDecodeError

\* Python truthiness of a decoded document (`not parsed` is its negation)
Truthy(v) ==
    CASE v.type = "NoneType" -> FALSE
      [] v.type = "dict" -> v.keys # {}
      [] v.type = "list" -> v.s # "[]"
      [] v.type = "str" -> v.s # ""
      [] v.type = "int" -> v.s # "0"
      [] OTHER -> TRUE

\* parse_json_response: the decoded document, None when the text is no JSON
parse_json_response(response) ==
    IF json_loads(response) = JSONDecodeError THEN None ELSE json_loads(response)

\* (mutant) the key count of a final answer is not checked
validate_response_lax(parsed) ==
    IF parsed.type # "dict" THEN <<FALSE, "Response is not a JSON object">>
    ELSE IF "final" \in parsed.keys THEN
        IF parsed.get["final"].type # "str"
        THEN <<FALSE, "Final value must be string">>
        ELSE <<TRUE, "">>
    ELSE IF "action" \in parsed.keys /\ "input" \in parsed.keys THEN
        IF Cardinality(parsed.keys) # 2
        THEN <<FALSE, "Tool call contains extra keys">>
        ELSE IF parsed.get["action"].type # "str"
        THEN <<FALSE, "Action must be string">>
        ELSE IF parsed.get["input"].type # "str"
        THEN <<FALSE, "Input must be string">>
        ELSE <<TRUE, "">>
    ELSE <<FALSE, "Invalid JSON structure">>

\* (mutant) the type of `input` is not checked
validate_response_untyped(parsed) ==
    IF parsed.type # "dict" THEN <<FALSE, "Response is not a JSON object">>
    ELSE IF "final" \in parsed.keys THEN
        IF Cardinality(parsed.keys) # 1
        THEN <<FALSE, "Final response contains extra keys">>
        ELSE IF parsed.get["final"].type # "str"
        THEN <<FALSE, "Final value must be string">>
        ELSE <<TRUE, "">>
    ELSE IF "action" \in parsed.keys /\ "input" \in parsed.keys THEN
        IF Cardinality(parsed.keys) # 2
        THEN <<FALSE, "Tool call contains extra keys">>
        ELSE IF parsed.get["action"].type # "str"
        THEN <<FALSE, "Action must be string">>
        ELSE <<TRUE, "">>
    ELSE <<FALSE, "Invalid JSON structure">>

\* validate_response: <<valid, error>>
validate_response(parsed) ==
    IF parsed.type # "dict" THEN <<FALSE, "Response is not a JSON object">>
    ELSE IF "final" \in parsed.keys THEN
        IF Cardinality(parsed.keys) # 1
        THEN <<FALSE, "Final response contains extra keys">>
        ELSE IF parsed.get["final"].type # "str"
        THEN <<FALSE, "Final value must be string">>
        ELSE <<TRUE, "">>
    ELSE IF "action" \in parsed.keys /\ "input" \in parsed.keys THEN
        IF Cardinality(parsed.keys) # 2
        THEN <<FALSE, "Tool call contains extra keys">>
        ELSE IF parsed.get["action"].type # "str"
        THEN <<FALSE, "Action must be string">>
        ELSE IF parsed.get["input"].type # "str"
        THEN <<FALSE, "Input must be string">>
        ELSE <<TRUE, "">>
    ELSE <<FALSE, "Invalid JSON structure">>

\* ------------------------------------------------------------------------
\* Tools (app/tools.py).  A tool run gives the execution result the agent
\* sees and what the run did outside the process.  Texts of results are
\* sequences of pieces: single characters where they matter, whole
\* messages otherwise.
\* ------------------------------------------------------------------------

ExecutionResult(out, err, rc) == [stdout |-> out, stderr |-> err, returncode |-> rc]

\* what one loop iteration did outside the process: the tool whose run() was
\* called, whether a subshell ran the input, the file opened for writing and
\* what was written, the path and raw content open(path, "r") and read() gave
NoCall ==
    [tool |-> "", input |-> "", subshell |-> FALSE, opened |-> "", written |-> <<>>,
     read |-> {}]
Call(t, inp) == [NoCall EXCEPT !.tool = t, !.input = inp]

\* outcome of a tool run: an execution result, or an exception leaving run()
Returned(res, call) == [raised |-> FALSE, result |-> res, call |-> call]
Raised(call) == [raised |-> TRUE, result |-> ExecutionResult(<<>>, <<>>, 1), call |-> call]

\* ShellTool.run: the destructive substrings
blocked ==
    { <<"r", "m", " ">>,
      <<"s", "h", "u", "t", "d", "o", "w", "n">>,
      <<"r", "e", "b", "o", "o", "t">>,
      <<"m", "k", "f", "s">>,
      <<"d", "d", " ">> }

\* (mutant) the tool blocks nothing
ShellBlockedNever(input) == FALSE

ShellBlocked(input) == \E cmd \in blocked : Contains(Chars(input), cmd)

\* what subprocess.run may give back for a command: raw stdout, raw stderr
\* and the exit status
Processes ==
    { [stdout |-> <<"o", "k", "\n">>, stderr |-> <<>>, returncode |-> 0],
      [stdout |-> <<>>, stderr |-> <<"warning">>, returncode |-> 0],
      [stdout |-> <<>>, stderr |-> <<>>, returncode |-> 2] }

ShellTool_run(input) ==
    IF ShellBlocked(input)
    THEN { Returned(ExecutionResult(<<>>, <<"Command blocked for safety.">>, 1),
                    Call("shell", input)) }
    ELSE { Returned(ExecutionResult(Strip(p.stdout), Strip(p.stderr), p.returncode),
                    [Call("shell", input) EXCEPT !.subshell = TRUE]) :
           p \in Processes }

\* what the file system may hold at a path that is read: nothing, a text
\* file, or something open() refuses (a directory)
Missing == [exists |-> FALSE, readable |-> FALSE, content |-> <<>>]
TextFile(c) == [exists |-> TRUE, readable |-> TRUE, content |-> c]
Directory == [exists |-> TRUE, readable |-> FALSE, content |-> <<>>]
PathStates == { Missing, TextFile(<<" ", "c", "\n">>), Directory }

ReadFileTool_run(input) ==
    { IF ~fs.exists
      THEN Returned(ExecutionResult(<<>>, <<"File not found.">>, 1),
                    Call("read_file", input))
      ELSE IF ~fs.readable
      THEN Raised(Call("read_file", input))
      ELSE Returned(ExecutionResult(Strip(fs.content), <<>>, 0),
                    [Call("read_file", input) EXCEPT
                        !.read = {[path |-> input, content |-> fs.content]}]) :
      fs \in PathStates }

\* WriteFileTool.run: every exception is turned into a failed result;
\* open(path, "w") may fail, and truncates the file before write() runs
WriteFileTool_run(input_str) ==
    LET data == json_loads(input_str)
        call == Call("write_file", input_str)
    IN  IF data = JSONDecodeError
        THEN { Returned(ExecutionResult(<<>>, <<"Expecting value">>, 1), call) }
        ELSE IF data.type # "dict"
        THEN { Returned(ExecutionResult(<<>>, <<"indices must be integers">>, 1), call) }
        ELSE IF "path" \notin data.keys
        THEN { Returned(ExecutionResult(<<>>, <<"'path'">>, 1), call) }
        ELSE IF "content" \notin data.keys
        THEN { Returned(ExecutionResult(<<>>, <<"'content'">>, 1), call) }
        ELSE IF data.get["path"].type # "str"
        THEN { Returned(ExecutionResult(<<>>, <<"open() failed">>, 1), call) }
        ELSE { Returned(ExecutionResult(<<>>, <<"Permission denied">>, 1), call) }
             \cup
             { IF data.get["content"].type = "str"
               THEN Returned(ExecutionResult(<<"File written">>, <<>>, 0),
                             [call EXCEPT !.opened = data.get["path"].s,
                                          !.written = <<data.get["content"].s>>])
               ELSE Returned(ExecutionResult(<<>>, <<"write() argument must be str">>, 1),
                             [call EXCEPT !.opened = data.get["path"].s]) }

\* ListDirTool.run: the entries of a directory, or a failure
ListDirTool_run(input) ==
    { Returned(ExecutionResult(<<"a.txt">>, <<>>, 0), Call("list_dir", input)),
      Returned(ExecutionResult(<<>>, <<"Not a directory.">>, 1), Call("list_dir", input)) }

\* TOOLS: the registry
TOOLS == {"shell", "read_file", "write_file", "list_dir"}

\* tool.run(tool_input) for the registered tool `action`
tool_run(action, tool_input) ==
    CASE action = "shell" -> ShellTool_run(tool_input)
      [] action = "read_file" -> ReadFileTool_run(tool_input)
      [] action = "write_file" -> WriteFileTool_run(tool_input)
      [] action = "list_dir" -> ListDirTool_run(tool_input)

\* ------------------------------------------------------------------------
\* The language model and the planner (environment)
\* ------------------------------------------------------------------------

FileReplies ==
    { "{\"action\":\"read_file\",\"input\":\"a.txt\"}",
      "{\"action\":\"write_file\",\"input\":\"{\\\"path\\\":\\\"a.txt\\\",\\\"content\\\":\\\"x\\\"}\"}",
      "{\"action\":\"write_file\",\"input\":\"{\\\"path\\\":\\\"b.txt\\\",\\\"content\\\":\\\"x\\\"}\"}",
      "{\"action\":\"write_file\",\"input\":\"{\\\"path\\\":\\\"a.txt\\\"}\"}",
      "{\"action\":\"write_file\",\"input\":\"{\\\"content\\\":\\\"x\\\"}\"}",
      "{\"action\":\"write_file\",\"input\":\"{\\\"path\\\":[\\\"b.txt\\\"],\\\"content\\\":\\\"x\\\"}\"}",
      "{\"action\":\"write_file\",\"input\":\"{\\\"path\\\":5,\\\"content\\\":\\\"x\\\"}\"}",
      "{\"action\":\"write_file\",\"input\":\"a.txt\"}" }

\* the language model of one run answers from one of these sets of texts
Repertoires ==
    { { "{\"final\":\"done\"}",
        "{\"action\":\"shell\",\"input\":\"ls\"}",
        "{\"action\":\"shell\",\"input\":\"pip list\"}",
        "not json at all",
        "{}",
        "{\"final\":\"done\",\"action\":\"shell\"}",
        "{\"action\":\"shell\",\"input\":\"ls\",\"note\":\"x\"}" },
      { "{\"final\":\"\"}",
        "{\"final\":\"done\"}",
        "{\"action\":\"shell\",\"input\":\"rm -rf /tmp/x\"}",
        "{\"action\":\"shell\",\"input\":\"apt update\"}",
        "{\"action\":\"shell\",\"input\":\"rm pip\"}",
        "{\"action\":\"list_dir\",\"input\":\".\"}",
        "{\"action\":\"delete_file\",\"input\":\"a.txt\"}",
        "[1]",
        "{\"final\":5}",
        "{\"action\":\"shell\"}",
        "{\"action\":5,\"input\":\"ls\"}" },
      { "{\"final\":\"done\"}",
        "null",
        "{\"action\":\"shell\",\"input\":5}" } \cup FileReplies }

\* the texts ask_llm may return
Replies == UNION Repertoires

\* the decoded replies
Parsed == [response \in Replies |-> parse_json_response(response)]

\* the k-th step description of a plan
StepText(k) ==
    CASE k = 1 -> "locate manage.py"
      [] k = 2 -> "read models.py"
      [] k = 3 -> "edit models.py"
      [] OTHER -> "run manage.py check"

\* the plans create_plan may return ([] when planning failed)
Plans == { [k \in 1..n |-> StepText(k)] : n \in 0..MaxPlanLen }

\* ------------------------------------------------------------------------
\* State
\* ------------------------------------------------------------------------

VARIABLES
    pc,                         \* where run_agent / execute_step stands
    plan,                       \* run_agent: plan
    i,                          \* run_agent: index of the step in the for loop (1-based)
    task_state,                 \* run_agent: task_state (step_results, last_stdout, files_read)
    messages,                   \* execute_step: messages
    last_execution_successful,  \* execute_step: last_execution_successful
    retry_count,                \* execute_step: retry_count
    response,                   \* execute_step: response
    result,                     \* the value execute_step returned
    queries,                    \* history: ask_llm calls made by the current step
    executions,                 \* history: execution results of the current step's tool runs
    repertoire,                 \* environment: the texts the language model answers with
    invoked,                    \* history: the tool run of the latest loop iteration
    reads,                      \* history: the paths a read_file run of this task read
    document,                   \* validate_response on its own: the argument `parsed`
    verdict                     \* validate_response on its own: the value returned

vars == <<pc, plan, i, task_state, messages, last_execution_successful,
          retry_count, response, result, queries, executions, repertoire, invoked,
          reads, document, verdict>>

\* the state of validate_response taken on its own
validation == <<document, verdict>>

locals == <<messages, last_execution_successful, retry_count, response>>

\* `verdict` before validate_response has returned
NotCalled == <<FALSE, "not called">>

\* `response` before ask_llm has answered
Unassigned == ""

max_retries == 5

SYSTEM_PROMPT == "You are an autonomous AI agent."

\* value returned by execute_step: None, or the final text
ReturnNone == [is_none |-> TRUE, text |-> ""]
ReturnText(t) == [is_none |-> FALSE, text |-> t]

Message(role, content) == [role |-> role, content |-> content]

\* (mutant) the seed message does not carry the previous step's output
SeedMessagesStale(task, ts) ==
    << Message("system", [kind |-> "system", text |-> SYSTEM_PROMPT]),
       Message("user", [kind |-> "step", last_stdout |-> "", task |-> task]) >>

\* the two messages a step's conversation starts with
SeedMessages(task, ts) ==
    << Message("system", [kind |-> "system", text |-> SYSTEM_PROMPT]),
       Message("user", [kind |-> "step", last_stdout |-> ts.last_stdout, task |-> task]) >>

\* user messages appended by the loop
MustExecuteMessage ==
    Message("user", [kind |-> "must_execute",
                     text |-> "You must successfully execute a tool before finalizing this step."])
FailedMessage(res) ==
    Message("user", [kind |-> "failed", returncode |-> res.returncode, stderr |-> res.stderr])
SucceededMessage(res) ==
    Message("user", [kind |-> "succeeded", stdout |-> res.stdout])

Init ==
    /\ pc = "create_plan"
    /\ plan = <<>>
    /\ i = 1
    /\ task_state = [step_results |-> <<>>, last_stdout |-> "", files_read |-> <<>>]
    /\ messages = <<>>
    /\ last_execution_successful = FALSE
    /\ retry_count = 0
    /\ response = Unassigned
    /\ result = ReturnNone
    /\ queries = 0
    /\ executions = <<>>
    /\ repertoire \in Repertoires
    /\ invoked = NoCall
    /\ reads = {}
    /\ document = None
    /\ verdict = NotCalled

\* ------------------------------------------------------------------------
\* run_agent
\* ------------------------------------------------------------------------

\* the locals of execute_step once the call is over (returned or unwound)
FrameGone ==
    /\ messages' = <<>>
    /\ last_execution_successful' = FALSE
    /\ retry_count' = 0
    /\ response' = Unassigned
    /\ queries' = 0
    /\ executions' = <<>>

\* an exception nothing catches: it leaves execute_step and run_agent
Propagate ==
    /\ pc' = "raised"
    /\ FrameGone
    /\ UNCHANGED <<plan, i, task_state, reads, result, repertoire, validation>>

\* create_plan returned; an empty plan ends the task before any step
CreatePlan ==
    /\ pc = "create_plan"
    /\ \E p \in Plans :
        /\ plan' = p
        /\ pc' = IF p = <<>> THEN "no_plan" ELSE "for"
    /\ task_state' = [step_results |-> <<>>, last_stdout |-> "", files_read |-> <<>>]
    /\ UNCHANGED <<reads, i, locals, result, queries, executions, repertoire, validation, invoked>>

\* the planner's ask_llm raised: nothing in run_agent catches it
PlannerRaised ==
    /\ pc = "create_plan"
    /\ Propagate
    /\ UNCHANGED invoked

\* (mutant) the success flag outlives the step that set it
BeginStepCarrying ==
    /\ pc = "for"
    /\ i <= Len(plan)
    /\ messages' = SeedMessages(plan[i], task_state)
    /\ last_execution_successful' = (i > 1)
    /\ retry_count' = 0
    /\ response' = Unassigned
    /\ queries' = 0
    /\ executions' = <<>>
    /\ invoked' = NoCall
    /\ pc' = "AWAITING_REPLY"
    /\ UNCHANGED <<plan, i, task_state, reads, result, repertoire, validation>>

\* the for loop calls execute_step for plan[i]; execute_step sets up its locals
BeginStep ==
    /\ pc = "for"
    /\ i <= Len(plan)
    /\ messages' = SeedMessages(plan[i], task_state)
    /\ last_execution_successful' = FALSE
    /\ retry_count' = 0
    /\ response' = Unassigned
    /\ queries' = 0
    /\ executions' = <<>>
    /\ invoked' = NoCall
    /\ pc' = "AWAITING_REPLY"
    /\ UNCHANGED <<plan, i, task_state, reads, result, repertoire, validation>>

\* (mutant) a failed step is skipped and the loop goes on
StepReturnedSkipping ==
    /\ pc \in {"DONE", "FAILED"}
    /\ IF result.is_none
       THEN /\ UNCHANGED <<task_state, reads>>
       ELSE /\ task_state' = [task_state EXCEPT
                                !.step_results = Append(@, result.text),
                                !.last_stdout = result.text]
            /\ UNCHANGED reads
    /\ i' = i + 1
    /\ pc' = "for"
    /\ FrameGone
    /\ invoked' = NoCall
    /\ UNCHANGED <<plan, result, repertoire, validation>>

\* execute_step returned: abort on None, else record the result and go on
StepReturned ==
    /\ pc \in {"DONE", "FAILED"}
    /\ IF result.is_none
       THEN /\ pc' = "aborted"
            /\ UNCHANGED <<i, task_state, reads>>
       ELSE /\ task_state' = [task_state EXCEPT
                                !.step_results = Append(@, result.text),
                                !.last_stdout = result.text]
            /\ UNCHANGED reads
            /\ i' = i + 1
            /\ pc' = "for"
    /\ FrameGone
    /\ invoked' = NoCall
    /\ UNCHANGED <<plan, result, repertoire, validation>>

\* the for loop is over: the task result is the last step's text
AllStepsDone ==
    /\ pc = "for"
    /\ i > Len(plan)
    /\ pc' = "finished"
    /\ UNCHANGED <<plan, i, task_state, reads, locals, result, queries, executions,
                   repertoire, validation, invoked>>

\* ------------------------------------------------------------------------
\* execute_step: policy checks
\* ------------------------------------------------------------------------

\* the environment-mutation substrings
forbidden ==
    { <<"p", "i", "p">>,
      <<"v", "e", "n", "v">>,
      <<"a", "p", "t">>,
      <<"y", "u", "m">>,
      <<"b", "r", "e", "w">>,
      <<"i", "n", "s", "t", "a", "l", "l">> }

Forbidden(tool_input) == \E word \in forbidden : Contains(Chars(tool_input), word)

\* (mutant) files_read is not consulted
WriteCheckUnguarded(tool_input, ts) ==
    LET data == json_loads(tool_input)
    IN  IF data = JSONDecodeError \/ data.type # "dict" \/ "path" \notin data.keys
        THEN "invalid_input"
        ELSE IF data.get["path"].type \in {"list", "dict"}
        THEN "unhashable"
        ELSE IF data.get["path"].type # "str"
        THEN "not_read"
        ELSE "ok"

\* the read-before-write check on a write_file input:
\*   "invalid_input"  json.loads or data["path"] raised (caught)
\*   "unhashable"     `path not in files_read` raised TypeError (not caught)
\*   "not_read"       path is no key of files_read
\*   "ok"             the write may go on
WriteCheck(tool_input, ts) ==
    LET data == json_loads(tool_input)
    IN  IF data = JSONDecodeError \/ data.type # "dict" \/ "path" \notin data.keys
        THEN "invalid_input"
        ELSE IF data.get["path"].type \in {"list", "dict"}
        THEN "unhashable"
        ELSE IF data.get["path"].type # "str" \/ data.get["path"].s \notin DOMAIN ts.files_read
        THEN "not_read"
        ELSE "ok"

\* what the checks before tool.run decide for a valid tool call
Verdict(action, tool_input, ts) ==
    IF action \notin TOOLS THEN "unknown_tool"
    ELSE IF action = "write_file" /\ WriteCheck(tool_input, ts) # "ok"
    THEN WriteCheck(tool_input, ts)
    ELSE IF action = "shell" /\ Forbidden(tool_input) THEN "forbidden"
    ELSE "run"

\* (mutant) only the exit status decides
ExecutionFailedByStatus(res) == res.returncode # 0

\* the failure test on an execution result
ExecutionFailed(res) == res.returncode # 0 \/ res.stderr # <<>>

\* (mutant) the result of a read_file run is recorded whatever its exit code
RecordReadOnFailure(ts, action, tool_input, res) ==
    IF action = "read_file"
    THEN [ts EXCEPT !.files_read =
            [q \in (DOMAIN @) \cup {tool_input} |->
                IF q = tool_input THEN res.stdout ELSE @[q]]]
    ELSE ts

\* (mutant) the output of every tool run with exit code 0 is recorded
RecordReadAnyTool(ts, action, tool_input, res) ==
    IF res.returncode = 0
    THEN [ts EXCEPT !.files_read =
            [q \in (DOMAIN @) \cup {tool_input} |->
                IF q = tool_input THEN res.stdout ELSE @[q]]]
    ELSE ts

\* files_read after a tool run
RecordRead(ts, action, tool_input, res) ==
    IF action = "read_file" /\ res.returncode = 0
    THEN [ts EXCEPT !.files_read =
            [q \in (DOMAIN @) \cup {tool_input} |->
                IF q = tool_input THEN res.stdout ELSE @[q]]]
    ELSE ts

\* ------------------------------------------------------------------------
\* execute_step: the loop.  One iteration is the retry check and ask_llm
\* (AWAITING_REPLY), then everything from parsing the reply to the end of
\* the iteration (VALIDATING), one action per way through it.
\* ------------------------------------------------------------------------

\* (mutant) the retry check is off by one
RetryExhaustedOffByOne == retry_count > max_retries

\* the retry check at the top of the loop
RetryExhausted == retry_count >= max_retries

\* the retry budget is used up
RetryLimit ==
    /\ pc = "AWAITING_REPLY"
    /\ RetryExhausted
    /\ pc' = "FAILED"
    /\ result' = ReturnNone
    /\ invoked' = NoCall
    /\ UNCHANGED <<plan, i, task_state, reads, locals, queries, executions, repertoire, validation>>

\* ask_llm returned a text
AskLLM ==
    /\ pc = "AWAITING_REPLY"
    /\ ~RetryExhausted
    /\ \E text \in repertoire : response' = text
    /\ queries' = queries + 1
    /\ invoked' = NoCall
    /\ pc' = "VALIDATING"
    /\ UNCHANGED <<plan, i, task_state, reads, messages, last_execution_successful,
                   retry_count, result, executions, repertoire, validation>>

\* (mutant) a gateway error is counted as a retry and the model asked again
GatewayErrorRetried ==
    /\ pc = "AWAITING_REPLY"
    /\ ~RetryExhausted
    /\ retry_count' = retry_count + 1
    /\ invoked' = NoCall
    /\ UNCHANGED <<pc, plan, i, task_state, reads, messages, last_execution_successful,
                   response, result, queries, executions, repertoire, validation>>

\* ask_llm raised (no answer, or a non-success status)
GatewayError ==
    /\ pc = "AWAITING_REPLY"
    /\ ~RetryExhausted
    /\ Propagate
    /\ invoked' = NoCall

\* `return value`, with no other change
Return(value) ==
    /\ pc' = IF value.is_none THEN "FAILED" ELSE "DONE"
    /\ result' = value
    /\ UNCHANGED <<plan, i, task_state, reads, locals, queries, executions, repertoire, validation, invoked>>

\* (mutant) the reply of the model is not kept in the conversation
ContinueUserOnly(user_message) ==
    /\ messages' = Append(messages, user_message)
    /\ retry_count' = retry_count + 1
    /\ pc' = "AWAITING_REPLY"
    /\ UNCHANGED <<plan, i, response, result, queries, repertoire, validation>>

\* append the reply and a user message, count the retry, loop again
Continue(user_message) ==
    /\ messages' = messages \o <<Message("assistant", response), user_message>>
    /\ retry_count' = retry_count + 1
    /\ pc' = "AWAITING_REPLY"
    /\ UNCHANGED <<plan, i, response, result, queries, repertoire, validation>>

\* parsed, as the loop uses it after both checks passed
parsed == Parsed[response]

Valid ==
    /\ pc = "VALIDATING"
    /\ Truthy(parsed)
    /\ validate_response(parsed)[1]

\* the reply is no JSON, or an empty / null JSON value
InvalidJSON ==
    /\ pc = "VALIDATING"
    /\ ~Truthy(parsed)
    /\ Return(ReturnNone)

\* the reply is JSON of neither accepted shape
InvalidStructure ==
    /\ pc = "VALIDATING"
    /\ Truthy(parsed)
    /\ ~validate_response(parsed)[1]
    /\ Return(ReturnNone)

\* (mutant) the rejected final answer does not count as a retry
FinalRejectedUncounted ==
    /\ Valid
    /\ "final" \in parsed.keys
    /\ ~last_execution_successful
    /\ messages' = messages \o <<Message("assistant", response), MustExecuteMessage>>
    /\ pc' = "AWAITING_REPLY"
    /\ UNCHANGED <<plan, i, task_state, reads, last_execution_successful, retry_count, response,
                   result, queries, executions, repertoire, validation, invoked>>

\* a final answer before a successful execution
FinalRejected ==
    /\ Valid
    /\ "final" \in parsed.keys
    /\ ~last_execution_successful
    /\ Continue(MustExecuteMessage)
    /\ UNCHANGED <<task_state, reads, last_execution_successful, executions, invoked>>

\* (mutant) a final answer ends the step whether or not a tool succeeded
FinalAcceptedUnchecked ==
    /\ Valid
    /\ "final" \in parsed.keys
    /\ Return(ReturnText(parsed.get["final"].s))

\* a final answer after a successful execution ends the step
FinalAccepted ==
    /\ Valid
    /\ "final" \in parsed.keys
    /\ last_execution_successful
    /\ Return(ReturnText(parsed.get["final"].s))

action == parsed.get["action"].s
tool_input == parsed.get["input"].s

ToolCall ==
    /\ Valid
    /\ "final" \notin parsed.keys

\* (mutant) a call that is turned down is answered and retried
ToolCallRejectedRetrying ==
    /\ ToolCall
    /\ Verdict(action, tool_input, task_state)
            \in {"unknown_tool", "invalid_input", "not_read", "forbidden"}
    /\ Continue(MustExecuteMessage)
    /\ UNCHANGED <<task_state, reads, last_execution_successful, executions, invoked>>

\* a tool call the checks before tool.run turn down: return None
ToolCallRejected ==
    /\ ToolCall
    /\ Verdict(action, tool_input, task_state)
            \in {"unknown_tool", "invalid_input", "not_read", "forbidden"}
    /\ Return(ReturnNone)

\* write_file with a path that cannot be hashed: the membership test raises
WritePathUnhashable ==
    /\ ToolCall
    /\ Verdict(action, tool_input, task_state) = "unhashable"
    /\ Propagate
    /\ UNCHANGED invoked

\* tool.run raised
ToolRaised ==
    /\ ToolCall
    /\ Verdict(action, tool_input, task_state) = "run"
    /\ \E out \in tool_run(action, tool_input) :
        /\ out.raised
        /\ invoked' = out.call
    /\ Propagate

\* tool.run returned a failed result
ToolFailed ==
    /\ ToolCall
    /\ Verdict(action, tool_input, task_state) = "run"
    /\ \E out \in tool_run(action, tool_input) :
        /\ ~out.raised
        /\ ExecutionFailed(out.result)
        /\ invoked' = out.call
        /\ executions' = Append(executions, out.result)
        /\ task_state' = RecordRead(task_state, action, tool_input, out.result)
        /\ reads' = reads \cup {r.path : r \in out.call.read}
        /\ last_execution_successful' = FALSE
        /\ Continue(FailedMessage(out.result))

\* (mutant) a successful run does not count as a retry
ToolSucceededUncounted ==
    /\ ToolCall
    /\ Verdict(action, tool_input, task_state) = "run"
    /\ \E out \in tool_run(action, tool_input) :
        /\ ~out.raised
        /\ ~ExecutionFailed(out.result)
        /\ invoked' = out.call
        /\ executions' = Append(executions, out.result)
        /\ task_state' = RecordRead(task_state, action, tool_input, out.result)
        /\ reads' = reads \cup {r.path : r \in out.call.read}
        /\ last_execution_successful' = TRUE
        /\ messages' = messages \o <<Message("assistant", response), SucceededMessage(out.result)>>
        /\ pc' = "AWAITING_REPLY"
        /\ UNCHANGED <<plan, i, retry_count, response, result, queries, repertoire, validation>>

\* tool.run returned a successful result
ToolSucceeded ==
    /\ ToolCall
    /\ Verdict(action, tool_input, task_state) = "run"
    /\ \E out \in tool_run(action, tool_input) :
        /\ ~out.raised
        /\ ~ExecutionFailed(out.result)
        /\ invoked' = out.call
        /\ executions' = Append(executions, out.result)
        /\ task_state' = RecordRead(task_state, action, tool_input, out.result)
        /\ reads' = reads \cup {r.path : r \in out.call.read}
        /\ last_execution_successful' = TRUE
        /\ Continue(SucceededMessage(out.result))

Next ==
    \/ CreatePlan
    \/ PlannerRaised
    \/ BeginStep
    \/ StepReturned
    \/ AllStepsDone
    \/ RetryLimit
    \/ AskLLM
    \/ GatewayError
    \/ InvalidJSON
    \/ InvalidStructure
    \/ FinalRejected
    \/ FinalAccepted
    \/ ToolCallRejected
    \/ WritePathUnhashable
    \/ ToolRaised
    \/ ToolFailed
    \/ ToolSucceeded

Spec == Init /\ [][Next]_vars

\* ------------------------------------------------------------------------
\* validate_response on its own, applied to decoded documents of every shape
\* ------------------------------------------------------------------------

\* keys and values of the objects handed to the validator
DocumentKeys == {"final", "action", "input", "note"}
DocumentValues == {JStr("x"), JInt("5"), JList("[]"), [type |-> "NoneType", s |-> ""]}

\* decoded documents: every object over these keys and values, and values
\* that are no object
Documents ==
    { Obj(fields) : fields \in UNION { [K -> DocumentValues] : K \in SUBSET DocumentKeys } }
        \cup { None, Scalar("list", "[1]"), Scalar("str", "final"), Scalar("int", "5") }

ValidatorInit ==
    /\ pc = "validate_response"
    /\ document \in Documents
    /\ verdict = NotCalled
    /\ plan = <<>>
    /\ i = 1
    /\ task_state = [step_results |-> <<>>, last_stdout |-> "", files_read |-> <<>>]
    /\ messages = <<>>
    /\ last_execution_successful = FALSE
    /\ retry_count = 0
    /\ response = Unassigned
    /\ result = ReturnNone
    /\ queries = 0
    /\ executions = <<>>
    /\ repertoire = {}
    /\ invoked = NoCall
    /\ reads = {}

\* valid, error = validate_response(parsed)
Validate ==
    /\ pc = "validate_response"
    /\ verdict' = validate_response(document)
    /\ pc' = "validated"
    /\ UNCHANGED <<plan, i, task_state, reads, locals, result, queries, executions,
                   repertoire, invoked, document>>

ValidatorNext == Validate

ValidatorSpec == ValidatorInit /\ [][ValidatorNext]_vars

\* ------------------------------------------------------------------------
\* Properties
\* ------------------------------------------------------------------------

\* success of a tool run as the specification defines it
Succeeded(res) == res.returncode = 0 /\ res.stderr = <<>>

\* the latest tool run of the step succeeded / no run of the step succeeded
LastRunSucceeded == executions # <<>> /\ Succeeded(executions[Len(executions)])
NoRunSucceeded == \A k \in DOMAIN executions : ~Succeeded(executions[k])

\* the reply decodes to {"final": <string>} and nothing else
FinalShape(text) ==
    /\ json_loads(text).type = "dict"
    /\ json_loads(text).keys = {"final"}
    /\ json_loads(text).get["final"].type = "str"

\* the reply decodes to {"action": <string>, "input": <string>} and nothing else
ToolCallShape(text) ==
    /\ json_loads(text).type = "dict"
    /\ json_loads(text).keys = {"action", "input"}
    /\ json_loads(text).get["action"].type = "str"
    /\ json_loads(text).get["input"].type = "str"

\* the tool call the reply asks for
CallsTool(text, name) == ToolCallShape(text) /\ json_loads(text).get["action"].s = name
CallInput(text) == json_loads(text).get["input"].s

\* C1: a step is DONE only on a reply {"final": <string>} received while the
\* latest tool run of the step had succeeded, and it returns that string
C1_FinalAcceptedOnlyAfterSuccess ==
    pc = "DONE" =>
        /\ FinalShape(response)
        /\ last_execution_successful
        /\ LastRunSucceeded
        /\ ~result.is_none
        /\ result.text = json_loads(response).get["final"].s

\* a step that is DONE after a failed run followed by a successful one
C1_Witness ==
    /\ pc = "DONE"
    /\ Len(executions) >= 2
    /\ ~Succeeded(executions[1])

\* C2: a valid final reply while no tool run of the step has succeeded does
\* not end the step: the reply and the corrective message are appended, the
\* retry counter goes up by one and the step awaits the next reply
C2_PrematureFinalRetried ==
    [][ (pc = "VALIDATING" /\ FinalShape(response) /\ NoRunSucceeded) =>
            /\ pc' = "AWAITING_REPLY"
            /\ messages' = messages \o <<Message("assistant", response), MustExecuteMessage>>
            /\ retry_count' = retry_count + 1
            /\ UNCHANGED <<task_state, last_execution_successful>> ]_vars

\* a final reply was rejected after a failed tool run and the step awaits again
C2_Witness ==
    /\ pc = "AWAITING_REPLY"
    /\ executions # <<>>
    /\ NoRunSucceeded
    /\ messages[Len(messages)] = MustExecuteMessage
    /\ FinalShape(response)

\* the substrings the shell denylists hold
Denylisted(input) ==
    \E word \in blocked \cup forbidden : Contains(Chars(input), word)

\* C3: no shell input holding a denylisted substring is run in a subshell
C3_DenylistedNeverRun ==
    invoked.subshell => ~Denylisted(invoked.input)

\* the shell tool was handed a destructive command and ran no subshell
C3_Witness ==
    /\ invoked.tool = "shell"
    /\ Denylisted(invoked.input)
    /\ ~invoked.subshell

\* C4: a shell call whose input holds a denylisted substring fails the step
\* at once: no retry is counted, no message appended, no further query
C4_DenylistedFailsAtOnce ==
    [][ (pc = "VALIDATING" /\ CallsTool(response, "shell")
            /\ Denylisted(CallInput(response))) =>
            /\ pc' = "FAILED"
            /\ retry_count' = retry_count
            /\ messages' = messages ]_vars

\* the decoded write_file input of a reply, and whether its path was read
WritePayload(text) == json_loads(CallInput(text))
HasPath(text) == WritePayload(text).type = "dict" /\ "path" \in WritePayload(text).keys
PathWasRead(text, ts) ==
    /\ WritePayload(text).get["path"].type = "str"
    /\ WritePayload(text).get["path"].s \in DOMAIN ts.files_read

\* C5: a write_file call whose path is no key of files_read never reaches
\* the write tool, and the step fails without counting a retry
C5_UnreadWriteFails ==
    [][ (pc = "VALIDATING" /\ CallsTool(response, "write_file") /\ HasPath(response)
            /\ ~PathWasRead(response, task_state)) =>
            /\ pc' = "FAILED"
            /\ invoked' = NoCall
            /\ retry_count' = retry_count ]_vars

\* C6: inside a step the retry counter goes up by exactly one on every
\* iteration that returns to AWAITING_REPLY, never goes down, and stays <= 5
C6_RetryCounterMonotone ==
    [][ /\ (pc = "VALIDATING" /\ pc' = "AWAITING_REPLY") => retry_count' = retry_count + 1
        /\ (pc \in {"AWAITING_REPLY", "VALIDATING"}
                /\ pc' \in {"AWAITING_REPLY", "VALIDATING", "DONE", "FAILED"})
            => retry_count' >= retry_count
        /\ retry_count' <= 5 ]_vars

\* three iterations: a rejected final, a failed run and a successful run
C6_Witness ==
    /\ pc = "AWAITING_REPLY"
    /\ retry_count = 3
    /\ Len(messages) = 8
    /\ {messages[2 * k].content.kind : k \in 2..4} = {"must_execute", "failed", "succeeded"}

\* progress of a step: it grows with every query and every processed reply
StepProgress == 2 * queries + (IF pc = "AWAITING_REPLY" THEN 1 ELSE 0)

Malformed(text) == ~FinalShape(text) /\ ~ToolCallShape(text)

\* C8: a reply that fails parsing or validation fails the step at once,
\* whatever the retry counter and the success flag are: no tool is run,
\* nothing is appended, no retry is counted
C8_MalformedReplyFails ==
    [][ (pc = "VALIDATING" /\ Malformed(response)) =>
            /\ pc' = "FAILED"
            /\ result'.is_none
            /\ invoked' = NoCall
            /\ UNCHANGED <<messages, retry_count, last_execution_successful,
                           queries, executions, task_state>> ]_vars

\* a malformed reply failed a step that had retried and had just succeeded
C8_Witness ==
    /\ pc = "FAILED"
    /\ Malformed(response)
    /\ retry_count > 0
    /\ last_execution_successful

\* C9: a FAILED step aborts the task: nothing is appended to step_results,
\* the loop does not move on, and nothing happens after the abort
C9_FailedStepAborts ==
    [][ /\ pc = "FAILED" => (pc' = "aborted" /\ UNCHANGED <<task_state, i>>)
        /\ pc # "aborted" ]_vars

\* the task was aborted with plan steps left
C9_Witness ==
    /\ pc = "aborted"
    /\ i < Len(plan)

\* C10: a tool run counts as successful exactly when its exit code is 0 and
\* its stderr is empty; a failed run clears the flag, appends the reply and
\* the corrective message, counts a retry, and a final that follows is rejected
C10_SuccessIsStatusAndStderr ==
    [][ /\ (pc = "VALIDATING" /\ Len(executions') = Len(executions) + 1) =>
            LET res == executions'[Len(executions')]
            IN  /\ last_execution_successful' = Succeeded(res)
                /\ messages' = messages \o
                      << Message("assistant", response),
                         IF Succeeded(res) THEN SucceededMessage(res) ELSE FailedMessage(res) >>
                /\ retry_count' = retry_count + 1
                /\ pc' = "AWAITING_REPLY"
        /\ (pc = "VALIDATING" /\ FinalShape(response) /\ ~LastRunSucceeded)
            => pc' = "AWAITING_REPLY" ]_vars

\* a run with exit code 0 and output on stderr left the flag cleared
C10_Witness ==
    /\ pc = "AWAITING_REPLY"
    /\ executions # <<>>
    /\ executions[Len(executions)].returncode = 0
    /\ executions[Len(executions)].stderr # <<>>
    /\ ~last_execution_successful

\* the path of a write_file input was read by a read_file run of this task
ReadInTask(input) ==
    /\ json_loads(input).type = "dict"
    /\ json_loads(input).get["path"].type = "str"
    /\ json_loads(input).get["path"].s \in reads

\* C11: read-before-write is task-wide: the write tool is run for a path
\* exactly when a read_file of that path succeeded earlier in the task, in
\* this step or an earlier one; files_read is kept from step to step
C11_WriteAllowedIffReadInTask ==
    /\ [](invoked.tool = "write_file" => ReadInTask(invoked.input))
    /\ [](DOMAIN task_state.files_read = reads)
    /\ [][ /\ (pc = "VALIDATING" /\ CallsTool(response, "write_file"))
                => (invoked'.tool = "write_file" <=> ReadInTask(CallInput(response)))
           /\ pc \in {"DONE", "for"} => task_state'.files_read = task_state.files_read ]_vars

\* the second step ran the write tool on a file only the first step had read
C11_Witness ==
    /\ i = 2
    /\ invoked.tool = "write_file"
    /\ Len(executions) = 1
    /\ invoked.opened = "a.txt"

\* files_read with the content recorded for a path
WithRead(files_read, path, content) ==
    [q \in (DOMAIN files_read) \cup {path} |->
        IF q = path THEN content ELSE files_read[q]]

\* C12: a read_file run records files_read[path] = the trimmed content of
\* the file exactly when the run succeeded, and the flag is then set; a
\* failed read leaves files_read as it was
C12_ReadRecordedIffSucceeded ==
    [][ (pc = "VALIDATING" /\ CallsTool(response, "read_file")) =>
            /\ invoked'.tool = "read_file"
            /\ IF Len(executions') = Len(executions) + 1
                    /\ Succeeded(executions'[Len(executions')])
               THEN /\ \E r \in invoked'.read :
                        /\ r.path = CallInput(response)
                        /\ task_state'.files_read =
                              WithRead(task_state.files_read, r.path, Strip(r.content))
                        /\ Strip(r.content) = executions'[Len(executions')].stdout
                   /\ last_execution_successful'
                   /\ pc' = "AWAITING_REPLY"
               ELSE /\ task_state'.files_read = task_state.files_read
                   /\ invoked'.read = {} ]_vars

\* a read of a missing path recorded nothing; the next read of the path
\* found the file and recorded its content without the surrounding blanks
C12_Witness ==
    /\ pc = "AWAITING_REPLY"
    /\ Len(executions) = 2
    /\ executions[1].stderr = <<"File not found.">>
    /\ invoked.read = {[path |-> "a.txt", content |-> <<" ", "c", "\n">>]}
    /\ task_state.files_read = [q \in {"a.txt"} |-> <<"c">>]
    /\ last_execution_successful

\* the write_file input decodes to an object with a path string and a
\* content string
WellFormedWrite(input) ==
    /\ json_loads(input).type = "dict"
    /\ json_loads(input).get["path"].type = "str"
    /\ json_loads(input).get["content"].type = "str"

\* C13: a write_file call whose input is no object with a path string and a
\* content string fails the step at once, also when its path was read
\* before: the write tool is not run and no retry is counted
C13_MalformedWriteFails ==
    [][ (pc = "VALIDATING" /\ CallsTool(response, "write_file")
            /\ ReadInTask(CallInput(response))
            /\ ~WellFormedWrite(CallInput(response))) =>
            /\ pc' = "FAILED"
            /\ invoked' = NoCall
            /\ retry_count' = retry_count ]_vars

\* C14: a valid tool call naming no registered tool fails the step at once:
\* no tool is run, no retry counted, no message appended, no further query
C14_UnknownToolFails ==
    [][ (pc = "VALIDATING" /\ ToolCallShape(response)
            /\ json_loads(response).get["action"].s
                    \notin {"shell", "read_file", "write_file", "list_dir"}) =>
            /\ pc' = "FAILED"
            /\ result'.is_none
            /\ invoked' = NoCall
            /\ UNCHANGED <<messages, retry_count, queries, executions, task_state>> ]_vars

\* the step failed on a call of delete_file after a run that had succeeded
C14_Witness ==
    /\ pc = "FAILED"
    /\ CallsTool(response, "delete_file")
    /\ last_execution_successful
    /\ retry_count > 0

\* a step of the plan is running or has just returned
InStep == pc \in {"AWAITING_REPLY", "VALIDATING", "DONE", "FAILED"}

\* C15: the plan's steps run in plan order, one at a time: step i runs
\* after i - 1 steps are DONE, its seed message carries the final text of
\* step i - 1 (empty for the first step), step_results holds the final texts
\* of the DONE steps in order, the task result is the last of them, and an
\* empty plan runs no step
C15_StepsInPlanOrder ==
    /\ [](InStep => (i \in 1..Len(plan) /\ Len(task_state.step_results) = i - 1))
    /\ [](pc = "finished" =>
            /\ plan # <<>>
            /\ Len(task_state.step_results) = Len(plan)
            /\ result = ReturnText(task_state.step_results[Len(plan)]))
    /\ [](pc = "no_plan" => (plan = <<>> /\ i = 1 /\ task_state.step_results = <<>>))
    /\ [][ /\ pc \notin {"no_plan", "finished"}
           /\ i' # i => (pc = "DONE" /\ i' = i + 1)
           /\ (pc = "for" /\ i <= Len(plan)) =>
                /\ pc' = "AWAITING_REPLY"
                /\ Len(messages') = 2
                /\ messages'[2].content.task = plan[i]
                /\ messages'[2].content.last_stdout =
                      (IF i = 1 THEN "" ELSE task_state.step_results[i - 1])
           /\ pc = "DONE" =>
                /\ pc' = "for"
                /\ task_state'.step_results =
                      Append(task_state.step_results, json_loads(response).get["final"].s)
                /\ task_state'.last_stdout = json_loads(response).get["final"].s
           /\ task_state'.step_results # task_state.step_results => pc = "DONE" ]_vars

\* a plan of two steps was carried out, with two different final texts
C15_Witness ==
    /\ pc = "finished"
    /\ Len(plan) = 2
    /\ task_state.step_results = <<"done", "">>
    /\ result = ReturnText("")

\* a decoded document of the shape {"final": <string>} / of the shape
\* {"action": <string>, "input": <string>}, with no other key
FinalDocument(d) ==
    /\ d.type = "dict"
    /\ d.keys = {"final"}
    /\ d.get["final"].type = "str"
ToolCallDocument(d) ==
    /\ d.type = "dict"
    /\ d.keys = {"action", "input"}
    /\ d.get["action"].type = "str"
    /\ d.get["input"].type = "str"

\* C16: the validator accepts a decoded reply exactly when it is an object
\* {"final": <string>} or an object {"action": <string>, "input": <string>},
\* each with no other key; no reply is of both shapes
C16_ValidatorAcceptsExactlyTwoShapes ==
    pc = "validated" =>
        /\ verdict[1] <=> (FinalDocument(document) \/ ToolCallDocument(document))
        /\ ~(FinalDocument(document) /\ ToolCallDocument(document))
        /\ verdict[1] => verdict[2] = ""

\* an object holding a final string together with a tool call was rejected
C16_Witness ==
    /\ pc = "validated"
    /\ document.keys = {"final", "action", "input"}
    /\ \A k \in document.keys : document.get[k].type = "str"
    /\ verdict = <<FALSE, "Final response contains extra keys">>

\* C17: every step starts afresh, whatever the earlier steps did: its
\* conversation is the system prompt and one seed user message, its retry
\* counter is 0 and its success flag is false; so a final answer given before
\* a tool run of this step succeeded is rejected, and the step fails on the
\* retry check only after 5 iterations of its own
C17_StepStartsFresh ==
    [][ /\ (pc = "for" /\ pc' = "AWAITING_REPLY") =>
                /\ Len(messages') = 2
                /\ messages'[1] = Message("system", [kind |-> "system", text |-> SYSTEM_PROMPT])
                /\ messages'[2].role = "user"
                /\ messages'[2].content.kind = "step"
                /\ retry_count' = 0
                /\ ~last_execution_successful'
        /\ (pc = "VALIDATING" /\ FinalShape(response) /\ NoRunSucceeded) =>
                (pc' = "AWAITING_REPLY" /\ retry_count' = retry_count + 1)
        /\ (pc = "AWAITING_REPLY" /\ pc' = "FAILED") =>
                (retry_count = 5 /\ queries = 5 /\ Len(messages) = 12) ]_vars

\* the first step ended DONE and the first reply of the second step, a final
\* answer, was rejected
C17_Witness ==
    /\ i = 2
    /\ Len(task_state.step_results) = 1
    /\ pc = "AWAITING_REPLY"
    /\ executions = <<>>
    /\ retry_count = 1
    /\ messages[4] = MustExecuteMessage

\* the language model of this run asks for no file tool, so that an
\* exception inside a step can only come from the gateway
NoFileReplies ==
    \A text \in repertoire :
        ~CallsTool(text, "read_file") /\ ~CallsTool(text, "write_file")

\* C18: a transport error of the gateway is not retried: a query either
\* gives a reply or ends the step and the task with the exception, the retry
\* counter is not touched and decides nothing, and after the exception the
\* task makes no query and runs no tool
C18_TransportErrorPropagates ==
    [][ /\ pc = "AWAITING_REPLY" =>
                /\ pc' \in {"VALIDATING", "FAILED", "raised"}
                /\ invoked' = NoCall
                /\ UNCHANGED <<task_state, i>>
                /\ (pc' = "FAILED") <=> (retry_count >= 5)
                /\ pc' = "raised" => UNCHANGED result
                /\ pc' = "VALIDATING" => UNCHANGED <<retry_count, messages>>
        /\ pc # "raised" ]_vars

\* the gateway failed in the second step of a task
C18_Witness ==
    /\ pc = "raised"
    /\ NoFileReplies
    /\ Len(task_state.step_results) = 1
    /\ i = 2
    /\ invoked = NoCall

\* the final answers the running step has had rejected
RejectedFinals ==
    Cardinality({k \in 1..retry_count : messages[2 * k + 2] = MustExecuteMessage})

\* C19: successful runs use up the retry budget too: a step that is DONE ran
\* between 1 and 4 tools, and its tool runs and rejected finals together are
\* at most 4; after five successful tool runs the step is FAILED.  Whenever
\* the step awaits a reply the conversation holds 2 + 2 * retry_count
\* messages, and no message, once appended, is changed or removed
C19_SuccessesUseTheBudget ==
    /\ [](pc = "DONE" =>
            /\ Len(executions) \in 1..4
            /\ Len(executions) + RejectedFinals = retry_count
            /\ retry_count <= 4)
    /\ [](pc = "AWAITING_REPLY" => Len(messages) = 2 + 2 * retry_count)
    /\ [][ /\ (pc = "AWAITING_REPLY" /\ Len(executions) = 5
                    /\ \A k \in 1..5 : Succeeded(executions[k]))
                => pc' = "FAILED"
           /\ (pc \in {"AWAITING_REPLY", "VALIDATING"}
                    /\ pc' \in {"AWAITING_REPLY", "VALIDATING", "DONE", "FAILED"})
                => (/\ Len(messages') >= Len(messages)
                    /\ SubSeq(messages', 1, Len(messages)) = messages) ]_vars

\* five tool runs of a step succeeded and the step is FAILED
C19_Witness ==
    /\ pc = "FAILED"
    /\ Len(executions) = 5
    /\ \A k \in 1..5 : Succeeded(executions[k])
    /\ Len(messages) = 12

\* C20: files_read only grows, and only a read_file run that returned
\* exit code 0 changes it: shell, write_file and list_dir runs, rejected
\* finals, failed runs and the end of a step, whatever its outcome, leave it
\* as it is, a successful write adds nothing to it, and a rejected final
\* leaves the success flag as it is
C20_OnlyReadsChangeFilesRead ==
    [][ /\ DOMAIN task_state.files_read \subseteq DOMAIN task_state'.files_read
        /\ task_state'.files_read # task_state.files_read =>
                /\ pc = "VALIDATING"
                /\ CallsTool(response, "read_file")
                /\ invoked'.tool = "read_file"
                /\ Len(executions') = Len(executions) + 1
                /\ executions'[Len(executions')].returncode = 0
                /\ \A q \in DOMAIN task_state.files_read \ {CallInput(response)} :
                        task_state'.files_read[q] = task_state.files_read[q]
        /\ (pc = "VALIDATING" /\ ~CallsTool(response, "read_file"))
                => task_state'.files_read = task_state.files_read
        /\ (Len(executions') = Len(executions) + 1
                    /\ executions'[Len(executions')].returncode # 0)
                => task_state'.files_read = task_state.files_read
        /\ (pc = "VALIDATING" /\ FinalShape(response) /\ pc' = "AWAITING_REPLY")
                => UNCHANGED <<last_execution_successful, task_state>> ]_vars

\* the write tool wrote a file that had been read: files_read still holds
\* what the read gave
C20_Witness ==
    /\ pc = "AWAITING_REPLY"
    /\ invoked.tool = "write_file"
    /\ invoked.opened = "a.txt"
    /\ invoked.written = <<"x">>
    /\ last_execution_successful
    /\ task_state.files_read = [q \in {"a.txt"} |-> <<"c">>]

====
